---- MODULE Spec2Model ----
(***************************************************************************)
(* Camtrap DP record kinds (Deployment, Media, Observation) and their four *)
(* converters: from_csv, to_csv, to_pandas, from_pandas.  The Deployment   *)
(* class of deployment.py, an earlier variant of the one of                *)
(* deployments.py, is given every call a Deployment session makes, and     *)
(* its outcome is kept beside the session's own.                           *)
(*                                                                         *)
(* A text is a sequence of characters.  The characters that the csv layer  *)
(* and the text layer treat specially are COMMA, QUOTE, CR, LF and BOM;    *)
(* every other element of a text is an ordinary character or a run of      *)
(* ordinary characters (a field name such as "deploymentID" is one run).   *)
(* A Python value is a record [ty, v]: ty is the Python type and v the     *)
(* payload as a sequence of character runs.                                *)
(***************************************************************************)
EXTENDS Integers, Sequences, FiniteSets, TLC

\* ------------------------------------------------------------------ bounds
MaxRecords == 2
MaxRows == 2
MaxOps == 3

\* -------------------------------------------------------------- characters
COMMA == ","
QUOTE == "<QUOTE>"
CR == "<CR>"
LF == "<LF>"
BOM == "<BOM>"

\* os.linesep of the platform the package runs on (POSIX)
LineSep == <<LF>>

\* ------------------------------------------------------------------ schema
DeploymentFields ==
  << "deploymentID", "locationID", "locationName", "latitude", "longitude",
     "coordinateUncertainty", "deploymentStart", "deploymentEnd", "setupBy",
     "cameraID", "cameraModel", "cameraDelay", "cameraHeight", "cameraDepth",
     "cameraTilt", "cameraHeading", "detectionDistance", "timestampIssues",
     "baitUse", "featureType", "habitat", "deploymentGroups",
     "deploymentTags", "deploymentComments" >>

MediaFields ==
  << "mediaID", "deploymentID", "captureMethod", "timestamp", "filePath",
     "filePublic", "fileName", "fileMediatype", "exifData", "favorite",
     "mediaComments" >>

ObservationFields ==
  << "observationID", "deploymentID", "mediaID", "eventID", "eventStart",
     "eventEnd", "observationLevel", "observationType", "cameraSetupType",
     "scientificName", "count", "lifeStage", "sex", "behavior",
     "individualID", "individualPositionRadius", "individualPositionAngle",
     "individualSpeed", "bboxX", "bboxY", "bboxWidth", "bboxHeight",
     "classificationMethod", "classifiedBy", "classificationTimestamp",
     "classificationProbability", "observationTags", "observationComments" >>

Kinds == {"Deployment", "Media", "Observation"}

\* cls.__dataclass_fields__.keys(): the declared fields, in declaration order
Fields(kind) ==
  CASE kind = "Deployment" -> DeploymentFields
    [] kind = "Media" -> MediaFields
    [] kind = "Observation" -> ObservationFields

Range(s) == {s[i] : i \in DOMAIN s}

Reverse(s) == [i \in DOMAIN s |-> s[Len(s) + 1 - i]]

FieldSet(kind) == Range(Fields(kind))

\* the fields whose annotation is Optional[...]
OptionalFields(kind) ==
  CASE kind = "Deployment" ->
         FieldSet(kind) \ {"deploymentID", "latitude", "longitude",
                           "deploymentStart", "deploymentEnd"}
    [] kind = "Media" ->
         {"captureMethod", "fileName", "exifData", "favorite", "mediaComments"}
    [] kind = "Observation" ->
         FieldSet(kind) \ {"observationID", "deploymentID", "eventStart",
                           "eventEnd", "observationLevel", "observationType"}

RequiredFields(kind) == FieldSet(kind) \ OptionalFields(kind)

\* the fields annotated bool / Optional[bool]
BoolFields(kind) ==
  CASE kind = "Deployment" -> {"timestampIssues", "baitUse"}
    [] kind = "Media" -> {"filePublic", "favorite"}
    [] kind = "Observation" -> {}

\* ------------------------------------------------------------ enumerations
FeatureType ==
  [ ROAD_PAVED |-> "roadPaved", ROAD_DIRT |-> "roadDirt",
    TRAIL_HIKING |-> "trailHiking", TRAIL_GAME |-> "trailGame",
    ROAD_UNDERPASS |-> "roadUnderpass", ROAD_OVERPASS |-> "roadOverpass",
    ROAD_BRIDGE |-> "roadBridge", CULVERT |-> "culvert", BURROW |-> "burrow",
    NEST_SITE |-> "nestSite", CARCASS |-> "carcass",
    WATER_SOURCE |-> "waterSource", FRUITING_TREE |-> "fruitingTree" ]

CaptureMethod ==
  [ ACTIVITY_DETECTION |-> "activityDetection", TIME_LAPSE |-> "timeLapse" ]

ObservationLevel == [ EVENT |-> "event", MEDIA |-> "media" ]

ObservationType ==
  [ ANIMAL |-> "animal", HUMAN |-> "human", VEHICLE |-> "vehicle",
    BLANK |-> "blank", UNKNOWN |-> "unknown", UNCLASSIFIED |-> "unclassified" ]

CameraSetupType == [ SETUP |-> "setup", CALIBRATION |-> "calibration" ]

LifeStage ==
  [ ADULT |-> "adult", SUBADULT |-> "subadult", JUVENILE |-> "juvenile" ]

\* class Sex(Enum) declares no member
Sex == [ m \in {} |-> "" ]

ClassificationMethod == [ HUMAN |-> "human", MACHINE |-> "machine" ]

EnumClass(cls) ==
  CASE cls = "FeatureType" -> FeatureType
    [] cls = "CaptureMethod" -> CaptureMethod
    [] cls = "ObservationLevel" -> ObservationLevel
    [] cls = "ObservationType" -> ObservationType
    [] cls = "CameraSetupType" -> CameraSetupType
    [] cls = "LifeStage" -> LifeStage
    [] cls = "Sex" -> Sex
    [] cls = "ClassificationMethod" -> ClassificationMethod

\* the declared value set of an enumeration
EnumValues(cls) == {EnumClass(cls)[m] : m \in DOMAIN EnumClass(cls)}

\* the enumeration a field is annotated with, "" for the other fields
EnumOf(kind, f) ==
  CASE kind = "Deployment" /\ f = "featureType" -> "FeatureType"
    [] kind = "Media" /\ f = "captureMethod" -> "CaptureMethod"
    [] kind = "Observation" /\ f = "observationLevel" -> "ObservationLevel"
    [] kind = "Observation" /\ f = "observationType" -> "ObservationType"
    [] kind = "Observation" /\ f = "cameraSetupType" -> "CameraSetupType"
    [] kind = "Observation" /\ f = "lifeStage" -> "LifeStage"
    [] kind = "Observation" /\ f = "sex" -> "Sex"
    [] kind = "Observation" /\ f = "classificationMethod" ->
         "ClassificationMethod"
    [] OTHER -> ""

EnumFields(kind) == {f \in FieldSet(kind) : EnumOf(kind, f) # ""}

\* ----------------------------------------------------------- Python values
None == [ty |-> "NoneType", v |-> <<>>]
StrV(s) == [ty |-> "str", v |-> s]
BoolV(b) == [ty |-> "bool", v |-> IF b THEN <<"1">> ELSE <<"0">>]
IntV(digits) == [ty |-> "int", v |-> <<digits>>]
FloatV(whole, frac) == [ty |-> "float", v |-> <<whole, frac>>]
\* numpy.nan, the one float object pandas puts where a value is missing; in
\* a float64 column, which holds numbers and no objects, the missing number
NaN == [ty |-> "float", v |-> <<"nan">>]
\* a float object of its own that is nan; id tells such objects apart
NaNObj(id) == [ty |-> "float", v |-> <<"nan">> \o id]
\* math.isnan(x) of a float
IsNaN(x) == x.ty = "float" /\ x.v[1] = "nan"
\* a member of a plain Enum class
EnumV(cls, member) == [ty |-> "Enum", v |-> <<cls, member>>]
\* a member of a class FeatureType(str, Enum)
StrEnumV(cls, member) == [ty |-> "strEnum", v |-> <<cls, member>>]
\* a dict, held by the text of its repr
DictV(repr) == [ty |-> "dict", v |-> repr]

\* str(value)
PyStr(val) ==
  CASE val.ty = "NoneType" -> <<"None">>
    [] val.ty = "str" -> val.v
    [] val.ty = "bool" -> IF val.v = <<"1">> THEN <<"True">> ELSE <<"False">>
    [] val.ty = "int" -> val.v
    [] val.ty = "float" -> IF IsNaN(val) THEN <<"nan">> ELSE val.v
    [] val.ty = "Enum" -> <<val.v[1], ".", val.v[2]>>
    [] val.ty = "strEnum" -> <<val.v[1], ".", val.v[2]>>
    [] val.ty = "dict" -> val.v

\* the number a numeric value stands for, as the text of the equal float
NumKey(val) ==
  IF val.ty = "float" THEN val.v ELSE <<val.v[1], ".0">>

\* a == b of two Python values
PyEq(a, b) ==
  LET num == {"bool", "int", "float"}
      text(x) == IF x.ty = "str" THEN x.v ELSE <<EnumClass(x.v[1])[x.v[2]]>>
  IN  CASE a.ty \in num /\ b.ty \in num ->
             /\ ~(a.ty = "float" /\ IsNaN(a))
             /\ ~(b.ty = "float" /\ IsNaN(b))
             /\ NumKey(a) = NumKey(b)
        [] a.ty \in {"str", "strEnum"} /\ b.ty \in {"str", "strEnum"} ->
             text(a) = text(b)
        [] OTHER -> a = b

\* a is b, told for the one value that == does not take as equal to itself:
\* two nan are the same object when they are numpy.nan or carry the same id
Is(a, b) == a.ty = "float" /\ IsNaN(a) /\ a = b

\* ------------------------------------------------------------- text layer
\* the concatenation of the sequences ss[lo], ..., ss[hi]
RECURSIVE Concat(_, _, _)
Concat(ss, lo, hi) ==
  IF lo > hi THEN <<>>
  ELSE IF lo = hi THEN ss[lo]
  ELSE LET mid == (lo + hi) \div 2
       IN  Concat(ss, lo, mid) \o Concat(ss, mid + 1, hi)

Flatten(ss) == Concat(ss, 1, Len(ss))

\* open(file_path, "w"): newline=None translates "\n" to os.linesep on write
TextWrite(s) ==
  Flatten([i \in DOMAIN s |-> IF s[i] = LF THEN LineSep ELSE <<s[i]>>])

\* the encoding from_csv opens the file with
Encoding(kind) == "utf-8-sig"

\* decoding: utf-8-sig drops one leading byte-order mark, utf-8 keeps it
Decode(encoding, s) ==
  IF encoding = "utf-8-sig" /\ s # <<>> /\ Head(s) = BOM THEN Tail(s) ELSE s

\* open(file_path, "r"): newline=None reads "\r\n" and "\r" as "\n"
Universal(s) ==
  Flatten([i \in DOMAIN s |->
             IF s[i] = CR THEN <<LF>>
             ELSE IF s[i] = LF /\ i > 1 /\ s[i - 1] = CR THEN <<>>
             ELSE <<s[i]>>])

TextRead(encoding, s) == Universal(Decode(encoding, s))

\* -------------------------------------------------------------- csv.writer
\* QUOTE_MINIMAL: a field is quoted when it holds the delimiter, the quote
\* character or a character of the line terminator
NeedsQuote(s) == \E i \in DOMAIN s : s[i] \in {COMMA, QUOTE, CR, LF}

DoubleQuotes(s) ==
  Flatten([i \in DOMAIN s |->
             IF s[i] = QUOTE THEN <<QUOTE, QUOTE>> ELSE <<s[i]>>])

\* a writer that quotes a field without doubling the quotes it holds
QuoteField_NoDoubling(s) ==
  IF NeedsQuote(s) THEN <<QUOTE>> \o s \o <<QUOTE>> ELSE s

\* the field as written: between quotes, its own quotes doubled, when it
\* needs quoting
QuoteField(s) ==
  IF NeedsQuote(s) THEN <<QUOTE>> \o DoubleQuotes(s) \o <<QUOTE>> ELSE s

\* a writer that writes every value by str(), None included
CsvField_str(val) ==
  IF val.ty = "strEnum" THEN <<EnumClass(val.v[1])[val.v[2]]>> ELSE PyStr(val)

\* the text csv.writer writes for one value: None as the empty string, a str
\* (or an instance of a str subclass) as its characters, the rest by str()
CsvField(val) ==
  CASE val.ty = "NoneType" -> <<>>
    [] val.ty = "str" -> val.v
    [] val.ty = "strEnum" -> <<EnumClass(val.v[1])[val.v[2]]>>
    [] OTHER -> PyStr(val)

JoinCells(cells) ==
  Flatten([i \in DOMAIN cells |->
             IF i = 1 THEN cells[i] ELSE <<COMMA>> \o cells[i]])

\* writer.writerow(values): lineterminator "\r\n"
writerow(values) ==
  LET cells == [i \in DOMAIN values |-> QuoteField(CsvField(values[i]))]
  IN  (IF Len(cells) = 1 /\ cells[1] = <<>> THEN <<QUOTE, QUOTE>>
       ELSE JoinCells(cells)) \o <<CR, LF>>

\* DictWriter._dict_to_list: the values of rowdict in fieldnames order
DictToList(fieldnames, rowdict) ==
  [i \in DOMAIN fieldnames |->
     IF fieldnames[i] \in DOMAIN rowdict THEN rowdict[fieldnames[i]]
     ELSE StrV(<<>>)]

\* DictWriter.writeheader
writeheader(fieldnames) ==
  writerow([i \in DOMAIN fieldnames |-> StrV(<<fieldnames[i]>>)])

writerows(fieldnames, rowdicts) ==
  Flatten([i \in DOMAIN rowdicts |->
             writerow(DictToList(fieldnames, rowdicts[i]))])

\* -------------------------------------------------------------- csv.reader
\* The reader's automaton (parse_process_char) over the lines of a text-mode
\* file.  The text layer has already turned every line ending into LF, so a
\* line holds no CR; the end of a line outside a quoted field ends the row.
ReaderStates ==
  {"START_RECORD", "START_FIELD", "IN_FIELD", "IN_QUOTED_FIELD",
   "QUOTE_IN_QUOTED_FIELD"}

ReaderStart == [state |-> "START_RECORD", field |-> <<>>, row |-> <<>>,
                rows |-> <<>>]

EndField(p, next) ==
  [state |-> next, field |-> <<>>, row |-> Append(p.row, p.field),
   rows |-> p.rows]

EndRow(p) ==
  [state |-> "START_RECORD", field |-> <<>>, row |-> <<>>,
   rows |-> Append(p.rows, Append(p.row, p.field))]

AddChar(p, c, next) ==
  [state |-> next, field |-> Append(p.field, c), row |-> p.row,
   rows |-> p.rows]

ReaderStep(p, c) ==
  CASE p.state = "START_RECORD" /\ c = LF ->
         [p EXCEPT !.rows = Append(p.rows, <<>>)]
    [] p.state \in {"START_RECORD", "START_FIELD"} ->
         ( CASE c = LF -> EndRow(p)
             [] c = QUOTE -> [p EXCEPT !.state = "IN_QUOTED_FIELD"]
             [] c = COMMA -> EndField(p, "START_FIELD")
             [] OTHER -> AddChar(p, c, "IN_FIELD") )
    [] p.state = "IN_FIELD" ->
         ( CASE c = LF -> EndRow(p)
             [] c = COMMA -> EndField(p, "START_FIELD")
             [] OTHER -> AddChar(p, c, "IN_FIELD") )
    [] p.state = "IN_QUOTED_FIELD" ->
         ( CASE c = QUOTE -> [p EXCEPT !.state = "QUOTE_IN_QUOTED_FIELD"]
             [] OTHER -> AddChar(p, c, "IN_QUOTED_FIELD") )
    [] p.state = "QUOTE_IN_QUOTED_FIELD" ->
         ( CASE c = QUOTE -> AddChar(p, c, "IN_QUOTED_FIELD")
             [] c = COMMA -> EndField(p, "START_FIELD")
             [] c = LF -> EndRow(p)
             [] OTHER -> AddChar(p, c, "IN_FIELD") )

\* the automaton after the characters s[lo], ..., s[hi], started in p
RECURSIVE ReaderRun(_, _, _, _)
ReaderRun(p, s, lo, hi) ==
  IF lo > hi THEN p
  ELSE IF lo = hi THEN ReaderStep(p, s[lo])
  ELSE LET mid == (lo + hi) \div 2
           left == ReaderRun(p, s, lo, mid)
       IN  \* the test evaluates left before the second half is entered
           IF left.state \in ReaderStates
           THEN ReaderRun(left, s, mid + 1, hi)
           ELSE left

\* list(csv.reader(file)): the rows of a text, a blank line as the row <<>>;
\* at the end of the file a row that is under way is returned as it stands
CsvRows(s) ==
  LET p == ReaderRun(ReaderStart, s, 1, Len(s))
  IN  IF p.state = "START_RECORD" THEN p.rows ELSE EndRow(p).rows

\* ------------------------------------------------------------- DictReader
Max(S) == CHOOSE x \in S : \A y \in S : y <= x

\* DictReader.__next__ for one non-blank row: dict(zip(fieldnames, row)),
\* then the surplus cells under restkey (None), or restval (None) for the
\* field names the row has no cell for
RowDict(fieldnames, row) ==
  [ rest |-> Len(fieldnames) < Len(row),
    d |-> [k \in Range(fieldnames) |->
             LET last == Max({i \in DOMAIN fieldnames : fieldnames[i] = k})
             IN  IF last > Len(row) THEN None ELSE StrV(row[last])] ]

\* a row the reader yields for a line that is not blank
NotBlank(row) == row # <<>>

\* a DictReader that takes the first row as data too
DictReader_HeaderAsData(s) ==
  LET rows == CsvRows(s)
      data == SelectSeq(rows, NotBlank)
  IN  [i \in DOMAIN data |-> RowDict(rows[1], data[i])]

\* DictReader(file): fieldnames is the first row the reader yields; every
\* later row that is not blank becomes one dict
DictReader(s) ==
  LET rows == CsvRows(s)
      data == IF rows = <<>> THEN <<>> ELSE SelectSeq(Tail(rows), NotBlank)
  IN  [i \in DOMAIN data |-> RowDict(rows[1], data[i])]

\* ----------------------------------------------------- dataclass __init__
\* Cls(**kwargs) accepts exactly the declared fields as keyword names: a
\* None key, an unknown name or a missing name is a TypeError
InitAccepts(kind, kwargs) ==
  /\ ~kwargs.rest
  /\ DOMAIN kwargs.d = {<<f>> : f \in FieldSet(kind)}

\* the instance: each field holds the argument as given, no coercion
DataclassInit(kind, kwargs) == [f \in FieldSet(kind) |-> kwargs.d[<<f>>]]

\* --------------------------------------------------------------- from_csv
\* with open(file_path, "r", encoding=...) as file:
\*     return [Cls(**row) for row in DictReader(file)]
from_csv(kind, present, content) ==
  IF ~present THEN [err |-> "FileNotFoundError", recs |-> <<>>]
  ELSE
    LET dicts == DictReader(TextRead(Encoding(kind), content))
    IN  IF \A i \in DOMAIN dicts : InitAccepts(kind, dicts[i])
        THEN [err |-> "none",
              recs |-> [i \in DOMAIN dicts |-> DataclassInit(kind, dicts[i])]]
        ELSE [err |-> "TypeError", recs |-> <<>>]

\* ----------------------------------------------------------------- to_csv
\* dataclasses.asdict(m): the declared fields of the instance
asdict(kind, rec) == [f \in FieldSet(kind) |-> rec[f]]

\* a to_csv whose fieldnames do not keep the declared order
to_csv_unordered(kind, records) ==
  TextWrite(writeheader(Reverse(Fields(kind)))
            \o writerows(Reverse(Fields(kind)),
                         [i \in DOMAIN records |-> asdict(kind, records[i])]))

\* with open(file_path, "w") as file:
\*     writer = DictWriter(file, fieldnames=Cls.__dataclass_fields__.keys())
\*     writer.writeheader()
\*     writer.writerows([asdict(m) for m in records])
to_csv(kind, records) ==
  TextWrite(writeheader(Fields(kind))
            \o writerows(Fields(kind),
                         [i \in DOMAIN records |-> asdict(kind, records[i])]))

\* ----------------------------------------------------------------- pandas
\* the cells of one column of DataFrame(list of dicts): a column of ints
\* and floats that holds a None or a float becomes float64, its None cells
\* NaN; every other column keeps its values
InferColumn(vals) ==
  LET tys == {vals[i].ty : i \in DOMAIN vals}
      numeric == /\ tys \subseteq {"int", "float", "NoneType"}
                 /\ tys \cap {"int", "float"} # {}
                 /\ tys \cap {"float", "NoneType"} # {}
      cell(x) == CASE x.ty = "NoneType" -> NaN
                   [] x.ty = "int" -> [ty |-> "float", v |-> NumKey(x)]
                   [] IsNaN(x) -> NaN
                   [] OTHER -> x
  IN  IF numeric THEN [i \in DOMAIN vals |-> cell(vals[i])] ELSE vals

\* DataFrame(dicts): one column per key, one row per dict; no dict, no column;
\* a dict without the key of a column has NaN in that column
DataFrame(columns, dicts) ==
  LET col(c) == InferColumn([i \in DOMAIN dicts |->
                               IF c \in DOMAIN dicts[i] THEN dicts[i][c]
                               ELSE NaN])
  IN  [ columns |-> IF dicts = <<>> THEN <<>> ELSE columns,
        rows |-> [i \in DOMAIN dicts |->
                    [c \in Range(columns) |-> col(c)[i]]] ]

\* dataframe.iterrows(): each row as a Series over the columns; a frame
\* whose columns are all int64/float64 with a float64 among them yields
\* every cell as a float.  The numbers of a float64 column are made into
\* objects as the rows are built, so a missing number comes out as a nan
\* object of its own, new in this call (the call-th of the session); an
\* object column hands out the objects it holds.
iterrows(df, call) ==
  LET colTys(c) == {df.rows[i][c].ty : i \in DOMAIN df.rows}
      allTys == UNION {colTys(c) : c \in Range(df.columns)}
      upcast == /\ \A c \in Range(df.columns) :
                      colTys(c) \in {{"int"}, {"float"}}
                /\ "float" \in allTys
      cell(i, c) ==
        LET x == df.rows[i][c]
        IN  IF upcast /\ x.ty = "int" THEN [ty |-> "float", v |-> NumKey(x)]
            ELSE IF colTys(c) = {"float"} /\ IsNaN(x)
                 THEN NaNObj(<<ToString(call), ToString(i), c>>)
            ELSE x
  IN  [i \in DOMAIN df.rows |-> [c \in Range(df.columns) |-> cell(i, c)]]

\* instance.__dict__: every attribute of the instance, the declared fields
\* and whatever else was set on it
InstanceDict(kind, rec) == rec

\* the attributes an instance may carry besides its declared fields
ExtraAttrs == <<"note">>

\* the keys of a list of dicts in order of first appearance: none for no
\* dict, else the declared fields as __init__ assigns them, then the
\* attributes set afterwards
DictKeys(kind, dicts) ==
  IF dicts = <<>> THEN <<>>
  ELSE Fields(kind)
         \o SelectSeq(ExtraAttrs,
                      LAMBDA a : \E i \in DOMAIN dicts : a \in DOMAIN dicts[i])

\* the dict a to_pandas builds for one record: asdict(m) in Media,
\* m.__dict__ in Deployment and Observation
PandasDict(kind, rec) ==
  IF kind = "Media" THEN asdict(kind, rec) ELSE InstanceDict(kind, rec)

\* return DataFrame([... for m in records])
to_pandas(kind, records) ==
  LET dicts == [i \in DOMAIN records |-> PandasDict(kind, records[i])]
  IN  DataFrame(DictKeys(kind, dicts), dicts)

\* return [Cls(**row) for index, row in dataframe.iterrows()]
from_pandas(kind, df, call) ==
  LET series == iterrows(df, call)
      kwargs == [i \in DOMAIN series |->
                   [rest |-> FALSE,
                    d |-> [k \in {<<c>> : c \in Range(df.columns)} |->
                             series[i][k[1]]]]]
  IN  IF \A i \in DOMAIN kwargs : InitAccepts(kind, kwargs[i])
      THEN [err |-> "none",
            recs |-> [i \in DOMAIN kwargs |-> DataclassInit(kind, kwargs[i])]]
      ELSE [err |-> "TypeError", recs |-> <<>>]

\* dataclass __eq__ of two records of one kind: the tuples of their fields,
\* and two tuples are equal when each pair of items is one object or is ==
RecEq(kind, a, b) ==
  \A f \in FieldSet(kind) : Is(a[f], b[f]) \/ PyEq(a[f], b[f])

\* ---------------------------------------------------------- file handles
\* open(file_path, mode) returns a handle: reading needs the file to exist,
\* writing creates or truncates it
open(present, mode) == mode = "w" \/ present

\* a body run between f = open(...) and f.close() with no try/finally
OpenThenClose(h, opened, bodyErr) ==
  IF opened /\ bodyErr # "none" THEN h + 1 ELSE h

\* the number of open handles once `with open(...) as file: body` is left,
\* h before it: nothing is acquired when open() raised; otherwise __exit__
\* closes the file whether the body returned or raised
WithOpen(h, opened, bodyErr) ==
  IF opened THEN (h + 1) - 1 ELSE h

\* ------------------------------------------- Deployment of deployment.py
\* the encoding open() takes when none is given (locale: UTF-8)
DefaultEncoding == "utf-8"

Min(S) == CHOOSE x \in S : \A y \in S : x <= y

\* DictWriter._dict_to_list, extrasaction="raise": the keys of rowdict that
\* are no fieldnames; any such key is a ValueError
WrongFields(fieldnames, rowdict) == DOMAIN rowdict \ Range(fieldnames)

\* deployments = []
\* with open(file_path, "r") as file:
\*     for row in DictReader(file): deployments.append(Deployment(**row))
\* return deployments
deployment_from_csv(present, content) ==
  IF ~open(present, "r") THEN [err |-> "FileNotFoundError", recs |-> <<>>]
  ELSE
    LET dicts == DictReader(TextRead(DefaultEncoding, content))
    IN  IF \A i \in DOMAIN dicts : InitAccepts("Deployment", dicts[i])
        THEN [err |-> "none",
              recs |-> [i \in DOMAIN dicts |->
                          DataclassInit("Deployment", dicts[i])]]
        ELSE [err |-> "TypeError", recs |-> <<>>]

\* with open(file_path, "w") as file:
\*     writer = DictWriter(file, fieldnames=...); writer.writeheader()
\*     for deployment in observations: writer.writerow(deployment.__dict__)
\* the text the file holds once the block is left: the header and the rows
\* written before the first row that raised
deployment_to_csv(records) ==
  LET fieldnames == Fields("Deployment")
      dicts == [i \in DOMAIN records |->
                  InstanceDict("Deployment", records[i])]
      bad == {i \in DOMAIN dicts : WrongFields(fieldnames, dicts[i]) # {}}
      n == IF bad = {} THEN Len(dicts) ELSE Min(bad) - 1
  IN  [ err |-> IF bad = {} THEN "none" ELSE "ValueError",
        text |-> TextWrite(writeheader(fieldnames)
                           \o writerows(fieldnames, SubSeq(dicts, 1, n))) ]

\* return DataFrame([deployment.__dict__ for deployment in observations])
deployment_to_pandas(records) ==
  LET dicts == [i \in DOMAIN records |->
                  InstanceDict("Deployment", records[i])]
  IN  DataFrame(DictKeys("Deployment", dicts), dicts)

\* for index, row in dataframe.iterrows():
\*     deployments.append(Deployment(**row))
deployment_from_pandas(df, call) ==
  LET series == iterrows(df, call)
      kwargs == [i \in DOMAIN series |->
                   [rest |-> FALSE,
                    d |-> [k \in {<<c>> : c \in Range(df.columns)} |->
                             series[i][k[1]]]]]
  IN  IF \A i \in DOMAIN kwargs : InitAccepts("Deployment", kwargs[i])
      THEN [err |-> "none",
            recs |-> [i \in DOMAIN kwargs |->
                        DataclassInit("Deployment", kwargs[i])]]
      ELSE [err |-> "TypeError", recs |-> <<>>]

\* ------------------------------------------------------------------ inputs
\* a record with every required field set and every optional field None
BaseRecord(kind) ==
  LET set == CASE kind = "Deployment" ->
                    [ deploymentID |-> StrV(<<"d1">>),
                      latitude |-> FloatV("51", ".5"),
                      longitude |-> FloatV("4", ".0"),
                      deploymentStart |-> StrV(<<"2020-05-01T10:00:00Z">>),
                      deploymentEnd |-> StrV(<<"2020-06-01T10:00:00Z">>) ]
               [] kind = "Media" ->
                    [ mediaID |-> StrV(<<"m1">>),
                      deploymentID |-> StrV(<<"d1">>),
                      timestamp |-> StrV(<<"2020-05-01T10:00:00Z">>),
                      filePath |-> StrV(<<"media/m1.jpg">>),
                      filePublic |-> BoolV(FALSE),
                      fileMediatype |-> StrV(<<"image/jpeg">>) ]
               [] kind = "Observation" ->
                    [ observationID |-> StrV(<<"o1">>),
                      deploymentID |-> StrV(<<"d1">>),
                      eventStart |-> StrV(<<"2020-05-01T10:00:00Z">>),
                      eventEnd |-> StrV(<<"2020-05-01T10:05:00Z">>),
                      observationLevel |-> EnumV("ObservationLevel", "MEDIA"),
                      observationType |-> EnumV("ObservationType", "ANIMAL") ]
  IN  [f \in FieldSet(kind) |-> IF f \in DOMAIN set THEN set[f] ELSE None]

\* the input records besides the base record: one with another ID, one
\* with optional fields of every type set, one with a CR in a comment and,
\* for Deployment, one on which the caller has set an attribute of their own
OtherRecords(kind) ==
  LET base == BaseRecord(kind)
  IN CASE kind = "Deployment" ->
         { [base EXCEPT !["deploymentID"] = StrV(<<"d2">>)],
           [base EXCEPT !["deploymentComments"] =
                          StrV(<<"a", COMMA, QUOTE, LF, "b">>),
                        !["habitat"] = StrV(<<>>),
                        !["coordinateUncertainty"] = FloatV("1", ".5"),
                        !["cameraDelay"] = IntV("5"),
                        !["baitUse"] = BoolV(TRUE),
                        !["timestampIssues"] = BoolV(FALSE),
                        !["featureType"] = StrEnumV("FeatureType", "BURROW")],
           [base EXCEPT !["deploymentComments"] = StrV(<<"a", CR, "b">>)],
           [f \in FieldSet(kind) \cup Range(ExtraAttrs) |->
              IF f \in Range(ExtraAttrs) THEN StrV(<<"x">>)
              ELSE IF f = "deploymentID" THEN StrV(<<"d3">>)
              ELSE base[f]] }
       [] kind = "Media" ->
         { [base EXCEPT !["mediaID"] = StrV(<<"m2">>)],
           [base EXCEPT !["mediaComments"] =
                          StrV(<<"a", COMMA, QUOTE, LF, "b">>),
                        !["fileName"] = StrV(<<>>),
                        !["filePublic"] = BoolV(TRUE),
                        !["favorite"] = BoolV(FALSE),
                        !["captureMethod"] = EnumV("CaptureMethod", "TIME_LAPSE"),
                        !["exifData"] = DictV(<<"{'a': 1", COMMA, " 'b': 2}">>)],
           [base EXCEPT !["mediaComments"] = StrV(<<"a", CR, "b">>)] }
       [] kind = "Observation" ->
         { [base EXCEPT !["observationID"] = StrV(<<"o2">>)],
           [base EXCEPT !["observationComments"] =
                          StrV(<<"a", COMMA, QUOTE, LF, "b">>),
                        !["scientificName"] = StrV(<<>>),
                        !["count"] = IntV("2"),
                        !["bboxX"] = FloatV("0", ".5"),
                        !["lifeStage"] = EnumV("LifeStage", "ADULT"),
                        !["observationType"] = EnumV("ObservationType", "BLANK")],
           [base EXCEPT !["observationComments"] = StrV(<<"a", CR, "b">>)] }

InputRecords(kind) == {BaseRecord(kind)} \cup OtherRecords(kind)

SeqsUpTo(S, n) == UNION {[1..m -> S] : m \in 0..n}

\* the column names a text or a table comes with
HeaderOf(kind, shape) ==
  CASE shape = "declared" -> Fields(kind)
    [] shape = "reversed" -> Reverse(Fields(kind))
    [] shape = "missingFirst" -> Tail(Fields(kind))
    [] shape = "missingLast" -> SubSeq(Fields(kind), 1, Len(Fields(kind)) - 1)
    [] shape = "extra" -> Append(Fields(kind), "zzz")

\* the cells of the row an input text holds for the base record
BaseRow(kind) ==
  [f \in FieldSet(kind) \cup {"zzz"} |->
     IF f = "zzz" THEN <<"z">> ELSE CsvField(BaseRecord(kind)[f])]

\* the rows of full length besides the base row: one with another ID, one
\* with a quoted comment, a lowercase boolean, text in a numeric field and
\* an enumeration cell outside the declared values
OtherRows(kind) ==
  LET base == BaseRow(kind)
  IN CASE kind = "Deployment" ->
         { [base EXCEPT !["deploymentID"] = <<"d2">>],
           [base EXCEPT !["deploymentComments"] = <<"a", COMMA, QUOTE, LF, "b">>,
                        !["latitude"] = <<"north">>,
                        !["baitUse"] = <<"true">>,
                        !["featureType"] = <<"bogus">>] }
       [] kind = "Media" ->
         { [base EXCEPT !["mediaID"] = <<"m2">>],
           [base EXCEPT !["mediaComments"] = <<"a", COMMA, QUOTE, LF, "b">>,
                        !["filePublic"] = <<"true">>,
                        !["captureMethod"] = <<"bogus">>] }
       [] kind = "Observation" ->
         { [base EXCEPT !["observationID"] = <<"o2">>],
           [base EXCEPT !["observationComments"] =
                          <<"a", COMMA, QUOTE, LF, "b">>,
                        !["count"] = <<"many">>,
                        !["lifeStage"] = <<"adult">>,
                        !["observationType"] = <<"bogus">>] }

\* a data row of an input text: the cell of each field, and how many cells
\* the line has compared with the header (blank: the line is empty)
InputRows(kind) ==
  {[cells |-> BaseRow(kind), shape |-> sh] :
      sh \in {"full", "short", "long", "blank"}}
    \cup {[cells |-> c, shape |-> "full"] : c \in OtherRows(kind)}

\* the cells of one line of an input text, in header order
LineCells(header, row) ==
  LET full == [i \in DOMAIN header |-> row.cells[header[i]]]
  IN  CASE row.shape = "full" -> full
        [] row.shape = "short" -> SubSeq(full, 1, Len(full) - 1)
        [] row.shape = "long" -> Append(full, <<"x">>)
        [] row.shape = "blank" -> <<>>

\* how an input text is laid out: its column names, its line ending, whether
\* the last line ends with one, whether a byte-order mark leads the text
Styles ==
  { [header |-> "declared", eol |-> <<CR, LF>>, final |-> TRUE, bom |-> FALSE],
    [header |-> "declared", eol |-> <<LF>>, final |-> TRUE, bom |-> FALSE],
    [header |-> "declared", eol |-> <<CR, LF>>, final |-> FALSE, bom |-> FALSE],
    [header |-> "declared", eol |-> <<CR, LF>>, final |-> TRUE, bom |-> TRUE],
    [header |-> "reversed", eol |-> <<CR, LF>>, final |-> TRUE, bom |-> FALSE],
    [header |-> "missingLast", eol |-> <<CR, LF>>, final |-> TRUE, bom |-> FALSE],
    [header |-> "extra", eol |-> <<CR, LF>>, final |-> TRUE, bom |-> FALSE] }

\* the lines of an input text as sequences of cells, the header line first
LayoutLines(kind, style, rows) ==
  LET header == HeaderOf(kind, style.header)
  IN  <<[i \in DOMAIN header |-> <<header[i]>>]>>
        \o [i \in DOMAIN rows |-> LineCells(header, rows[i])]

JoinLines(lines, eol, final) ==
  Flatten([i \in DOMAIN lines |->
             JoinCells([j \in DOMAIN lines[i] |-> QuoteField(lines[i][j])])
               \o (IF i < Len(lines) \/ final THEN eol ELSE <<>>)])

\* the characters of an input text
LayoutText(kind, style, rows) ==
  (IF style.bom THEN <<BOM>> ELSE <<>>)
    \o JoinLines(LayoutLines(kind, style, rows), style.eol, style.final)

\* ------------------------------------------------------------------- state
VARIABLES
  kind,       \* the record kind the session works with
  recs,       \* the caller's list of records
  recsFrom,   \* where recs comes from: "assigned", "from_csv", "from_pandas"
  present,    \* whether the file at file_path exists
  file,       \* the characters of the file at file_path
  fileFrom,   \* who wrote the file: "none", "placed", "to_csv"
  lines,      \* the lines the writer of the file meant, as lists of cells
  frame,      \* the caller's DataFrame
  frameFrom,  \* where frame comes from: "built", "to_pandas"
  src,        \* the file or table that recs was read from
  srcRecs,    \* the records the last to_pandas was given
  op,         \* the last call
  err,        \* the exception the last call raised, "none" if it returned
  nops,       \* the number of conversions called so far
  opens,      \* the number of open() calls the last call made
  handles,    \* the number of file handles that are open
  alt         \* the same call made on the Deployment class of deployment.py

vars == <<kind, recs, recsFrom, present, file, fileFrom, lines, frame,
          frameFrom, src, srcRecs, op, err, nops, opens, handles, alt>>

NoSrc == [text |-> <<>>, by |-> "none", lines |-> <<>>]

\* no call was made on the class of deployment.py: the session is about
\* another kind, or the last step was no conversion
NoAlt == [err |-> "none", out |-> <<>>, opens |-> 0, handles |-> 0]

\* a DataFrame as lines of cells: the column names, then each row's cells as
\* csv.writer would write them
FrameLines(df) ==
  <<[j \in DOMAIN df.columns |-> <<df.columns[j]>>]>>
    \o [i \in DOMAIN df.rows |->
          [j \in DOMAIN df.columns |->
             CsvField(iterrows(df, 0)[i][df.columns[j]])]]

Init ==
  /\ kind \in Kinds
  /\ recs = <<>>
  /\ recsFrom = "assigned"
  /\ present = FALSE
  /\ file = <<>>
  /\ fileFrom = "none"
  /\ lines = <<>>
  /\ frame = DataFrame(<<>>, <<>>)
  /\ frameFrom = "built"
  /\ src = NoSrc
  /\ srcRecs = <<>>
  /\ op = "init"
  /\ err = "none"
  /\ nops = 0
  /\ opens = 0
  /\ handles = 0
  /\ alt = NoAlt

\* the caller builds a list of records by explicit field assignment
AssignRecords ==
  /\ op = "init"
  /\ \E R \in SeqsUpTo(InputRecords(kind), MaxRecords) :
       /\ R # <<>>
       /\ recs' = R
  /\ op' = "assign"
  /\ UNCHANGED <<kind, recsFrom, present, file, fileFrom, lines, frame,
                 frameFrom, src, srcRecs, err, nops, opens, handles, alt>>

\* a text file from elsewhere is put at file_path
PlaceFile ==
  /\ op = "init"
  /\ \E style \in Styles, rows \in SeqsUpTo(InputRows(kind), MaxRows) :
       /\ file' = LayoutText(kind, style, rows)
       /\ lines' = LayoutLines(kind, style, rows)
  /\ present' = TRUE
  /\ fileFrom' = "placed"
  /\ op' = "place"
  /\ UNCHANGED <<kind, recs, recsFrom, frame, frameFrom, src, srcRecs, err,
                 nops, opens, handles, alt>>

\* the caller builds a DataFrame from dicts keyed by column name
BuildFrame ==
  /\ op = "init"
  /\ \E shape \in {"declared", "reversed", "missingFirst", "missingLast",
                   "extra"},
        R \in SeqsUpTo(InputRecords(kind), MaxRecords) :
       /\ R # <<>>
       /\ frame' =
            DataFrame(HeaderOf(kind, shape),
                      [i \in DOMAIN R |->
                         [c \in Range(HeaderOf(kind, shape)) |->
                            IF c = "zzz" THEN StrV(<<"z">>) ELSE R[i][c]]])
  /\ op' = "build"
  /\ UNCHANGED <<kind, recs, recsFrom, present, file, fileFrom, lines,
                 frameFrom, src, srcRecs, err, nops, opens, handles, alt>>

\* recs = Cls.from_csv(file_path)
FromCsv ==
  /\ nops < MaxOps
  /\ LET r == from_csv(kind, present, file)
     IN  /\ err' = r.err
         /\ IF r.err = "none"
            THEN /\ recs' = r.recs
                 /\ recsFrom' = "from_csv"
                 /\ src' = [text |-> file, by |-> fileFrom, lines |-> lines]
            ELSE UNCHANGED <<recs, recsFrom, src>>
         /\ handles' = WithOpen(handles, open(present, "r"), r.err)
  /\ opens' = 1
  /\ alt' = IF kind # "Deployment" THEN NoAlt
            ELSE LET a == deployment_from_csv(present, file)
                 IN  [err |-> a.err, out |-> a.recs, opens |-> 1,
                      handles |-> WithOpen(0, open(present, "r"), a.err)]
  /\ op' = "from_csv"
  /\ nops' = nops + 1
  /\ UNCHANGED <<kind, present, file, fileFrom, lines, frame, frameFrom,
                 srcRecs>>

\* Cls.to_csv(recs, file_path)
ToCsv ==
  /\ nops < MaxOps
  /\ file' = to_csv(kind, recs)
  /\ present' = TRUE
  /\ fileFrom' = "to_csv"
  /\ lines' = <<[i \in DOMAIN Fields(kind) |-> <<Fields(kind)[i]>>]>>
                \o [i \in DOMAIN recs |->
                      [j \in DOMAIN Fields(kind) |->
                         CsvField(recs[i][Fields(kind)[j]])]]
  /\ err' = "none"
  /\ opens' = 1
  /\ handles' = WithOpen(handles, open(present, "w"), "none")
  /\ alt' = IF kind # "Deployment" THEN NoAlt
            ELSE LET a == deployment_to_csv(recs)
                 IN  [err |-> a.err, out |-> a.text, opens |-> 1,
                      handles |-> WithOpen(0, open(present, "w"), a.err)]
  /\ op' = "to_csv"
  /\ nops' = nops + 1
  /\ UNCHANGED <<kind, recs, recsFrom, frame, frameFrom, src, srcRecs>>

\* frame = Cls.to_pandas(recs)
ToPandas ==
  /\ nops < MaxOps
  /\ frame' = to_pandas(kind, recs)
  /\ frameFrom' = "to_pandas"
  /\ srcRecs' = recs
  /\ err' = "none"
  /\ opens' = 0
  /\ handles' = handles
  /\ alt' = IF kind # "Deployment" THEN NoAlt
            ELSE [err |-> "none", out |-> deployment_to_pandas(recs),
                  opens |-> 0, handles |-> 0]
  /\ op' = "to_pandas"
  /\ nops' = nops + 1
  /\ UNCHANGED <<kind, recs, recsFrom, present, file, fileFrom, lines, src>>

\* recs = Cls.from_pandas(frame)
FromPandas ==
  /\ nops < MaxOps
  /\ LET r == from_pandas(kind, frame, nops + 1)
     IN  /\ err' = r.err
         /\ IF r.err = "none"
            THEN /\ recs' = r.recs
                 /\ recsFrom' = "from_pandas"
                 /\ src' = [text |-> <<>>, by |-> "frame",
                            lines |-> FrameLines(frame)]
            ELSE UNCHANGED <<recs, recsFrom, src>>
  /\ opens' = 0
  /\ handles' = handles
  /\ alt' = IF kind # "Deployment" THEN NoAlt
            ELSE LET a == deployment_from_pandas(frame, nops + 1)
                 IN  [err |-> a.err, out |-> a.recs, opens |-> 0,
                      handles |-> 0]
  /\ op' = "from_pandas"
  /\ nops' = nops + 1
  /\ UNCHANGED <<kind, present, file, fileFrom, lines, frame, frameFrom,
                 srcRecs>>

Next ==
  \/ AssignRecords
  \/ PlaceFile
  \/ BuildFrame
  \/ FromCsv
  \/ ToCsv
  \/ ToPandas
  \/ FromPandas

Spec == Init /\ [][Next]_vars

\* ------------------------------------------------------------- properties
\* the data rows of a text given as lines of cells: every line after the
\* header that is not blank
DataLines(ls) == IF ls = <<>> THEN <<>> ELSE SelectSeq(Tail(ls), NotBlank)

\* the header names every declared field once, in any order
ValidHeader(k, ls) ==
  /\ ls # <<>>
  /\ Len(ls[1]) = Len(Fields(k))
  /\ Range(ls[1]) = {<<f>> : f \in FieldSet(k)}

\* the header names exactly the expected field set
HeaderMatches(k, ls) ==
  /\ ls # <<>>
  /\ Range(ls[1]) = {<<f>> : f \in FieldSet(k)}

\* the column of a header that is named f
ColumnOf(header, f) == Max({i \in DOMAIN header : header[i] = <<f>>})

\* what a line holds for field f once the text layer has decoded it
CellOf(header, line, f) ==
  IF ColumnOf(header, f) > Len(line) THEN None
  ELSE StrV(Universal(line[ColumnOf(header, f)]))

\* the rows of the file at file_path, read back through the text layer
FileRows == CsvRows(TextRead("utf-8", file))

\* the record has no optional field set
AllOptionalAbsent(k, rec) == \A f \in OptionalFields(k) : rec[f] = None

\* C1: a text that to_csv wrote, read by from_csv and written again by
\* to_csv, is the same text character for character.
C1_TextRoundTrip ==
  (op = "to_csv" /\ recsFrom = "from_csv" /\ src.by = "to_csv")
    => file = src.text

\* C2: from_pandas(to_pandas(R)) has the length of R and equals R record by
\* record.
C2_TableRoundTrip ==
  (op = "from_pandas" /\ frameFrom = "to_pandas")
    => /\ err = "none"
       /\ Len(recs) = Len(srcRecs)
       /\ \A i \in DOMAIN recs : RecEq(kind, recs[i], srcRecs[i])

\* C3: for a text with a valid header, from_csv returns one record per data
\* row, the i-th record built from the i-th data row, and the empty list for
\* a text of the header alone; it returns whenever no row is longer than the
\* header.
C3_RowCountAndOrder ==
  (op = "from_csv" /\ present /\ ValidHeader(kind, lines))
    => LET data == DataLines(lines)
       IN  /\ (\A i \in DOMAIN data : Len(data[i]) <= Len(lines[1]))
                => err = "none"
           /\ err = "none" =>
                /\ Len(recs) = Len(data)
                /\ \A i \in DOMAIN recs : \A f \in FieldSet(kind) :
                     recs[i][f] = CellOf(lines[1], data[i], f)

C3_Witness ==
  /\ op = "from_csv"
  /\ err = "none"
  /\ fileFrom = "placed"
  /\ ValidHeader(kind, lines)
  /\ Len(DataLines(lines)) = 2
  /\ Len(recs) = 2
  /\ recs[1] # recs[2]

\* C4: to_csv writes the header with every field once in declared order and
\* every data row in that order, whatever the column order of the text or
\* table the records were read from.
C4_WrittenColumnOrder ==
  op = "to_csv" =>
    LET rows == FileRows
        read == DataLines(src.lines)
    IN  /\ Len(rows) = Len(recs) + 1
        /\ rows[1] = [j \in DOMAIN Fields(kind) |-> <<Fields(kind)[j]>>]
        /\ \A i \in DOMAIN recs :
             /\ Len(rows[i + 1]) = Len(Fields(kind))
             /\ \A j \in DOMAIN Fields(kind) :
                  /\ rows[i + 1][j] =
                       Universal(CsvField(recs[i][Fields(kind)[j]]))
                  /\ recsFrom \in {"from_csv", "from_pandas"} =>
                       StrV(rows[i + 1][j]) =
                         LET c == CellOf(src.lines[1], read[i],
                                         Fields(kind)[j])
                         IN  IF c = None THEN StrV(<<>>) ELSE c

C4_Witness ==
  /\ op = "to_csv"
  /\ recsFrom = "from_csv"
  /\ src.lines[1] = [j \in DOMAIN Fields(kind) |->
                       <<Reverse(Fields(kind))[j]>>]
  /\ Len(recs) = 2
  /\ recs[1] # recs[2]

\* C5: when the header row does not name exactly the expected field set,
\* from_csv fails with a FormatError.
C5_HeaderMismatchRaises ==
  (op = "from_csv" /\ present /\ ~HeaderMatches(kind, lines))
    => err = "FormatError"

\* C6: when a data row has fewer or more fields than the header row,
\* from_csv fails with a FormatError and returns no record built from it.
C6_FieldCountMismatchRaises ==
  LET data == DataLines(lines)
  IN  (/\ op = "from_csv"
       /\ present
       /\ \E i \in DOMAIN data : Len(data[i]) # Len(lines[1]))
        => err = "FormatError"

\* C7: no record that from_csv returns carries, in an enumeration field, a
\* non-empty value outside the declared value set.
C7_EnumMembershipOnRead ==
  (op = "from_csv" /\ err = "none")
    => \A i \in DOMAIN recs : \A f \in EnumFields(kind) :
         \/ recs[i][f].ty # "str"
         \/ recs[i][f].v = <<>>
         \/ \E x \in EnumValues(EnumOf(kind, f)) : recs[i][f].v = <<x>>

\* C8: from_pandas on a DataFrame that has a row and lacks the column of a
\* required field fails with a FormatError.
C8_MissingColumnRaises ==
  (/\ op = "from_pandas"
   /\ frame.rows # <<>>
   /\ \E f \in RequiredFields(kind) : f \notin Range(frame.columns))
    => err = "FormatError"

\* C9: for a record whose every optional field is None, to_csv completes and
\* writes a row with the full number of columns in which each optional
\* field is the empty string.
C9_AbsentOptionalWrittenEmpty ==
  op = "to_csv" =>
    LET rows == FileRows
    IN  /\ err = "none"
        /\ \A i \in DOMAIN recs :
             AllOptionalAbsent(kind, recs[i]) =>
               /\ Len(rows) > i
               /\ Len(rows[i + 1]) = Len(Fields(kind))
               /\ \A j \in DOMAIN Fields(kind) :
                    Fields(kind)[j] \in OptionalFields(kind)
                      => rows[i + 1][j] = <<>>

C9_Witness ==
  /\ op = "to_csv"
  /\ recsFrom = "assigned"
  /\ Len(recs) = 2
  /\ AllOptionalAbsent(kind, recs[2])
  /\ ~AllOptionalAbsent(kind, recs[1])

\* C10: to_csv writes a boolean field that holds a boolean as the lowercase
\* text "true" or "false".
C10_BooleanLowercase ==
  op = "to_csv" =>
    LET rows == FileRows
    IN  \A i \in DOMAIN recs : \A j \in DOMAIN Fields(kind) :
          (Fields(kind)[j] \in BoolFields(kind)
             /\ recs[i][Fields(kind)[j]].ty = "bool")
            => rows[i + 1][j] \in {<<"true">>, <<"false">>}

\* the fields annotated int, float, Optional[int] or Optional[float]
NumericFields(k) ==
  CASE k = "Deployment" ->
         {"latitude", "longitude", "coordinateUncertainty", "cameraDelay",
          "cameraHeight", "cameraDepth", "cameraTilt", "cameraHeading",
          "detectionDistance"}
    [] k = "Media" -> {}
    [] k = "Observation" ->
         {"count", "individualPositionRadius", "individualPositionAngle",
          "individualSpeed", "bboxX", "bboxY", "bboxWidth", "bboxHeight",
          "classificationProbability"}

\* the cells of the input rows that are no decimal or integer literal
NotANumber == {<<"north">>, <<"many">>}

\* the result the last call gave its caller
Outcome ==
  CASE op = "to_csv" -> file
    [] op = "to_pandas" -> frame
    [] OTHER -> recs

\* C11: to_csv writes a field that holds a member of its enumeration type as
\* the member's declared string value, not as its name or its qualified
\* representation.
C11_EnumDeclaredValue ==
  op = "to_csv" =>
    LET rows == FileRows
    IN  \A i \in DOMAIN recs : \A j \in DOMAIN Fields(kind) :
          LET val == recs[i][Fields(kind)[j]]
          IN  val.ty \in {"Enum", "strEnum"}
                => rows[i + 1][j] = <<EnumClass(val.v[1])[val.v[2]]>>

\* C12: when a numeric field of a data row holds non-empty text that is no
\* number, from_csv fails with a ValueError; every record from_csv returns
\* holds a number, not text, in each numeric field that is present.
C12_NumericCoercion ==
  (op = "from_csv" /\ present /\ ValidHeader(kind, lines))
    => LET data == DataLines(lines)
       IN  /\ (\E i \in DOMAIN data : \E f \in NumericFields(kind) :
                 CellOf(lines[1], data[i], f) \in {StrV(x) : x \in NotANumber})
                => err = "ValueError"
           /\ err = "none" =>
                \A i \in DOMAIN recs : \A f \in NumericFields(kind) :
                  recs[i][f].ty = "str" => recs[i][f].v = <<>>

\* C13: a conversion that fails hands its caller no records, and a to_csv
\* that fails leaves no header or row at the destination.
C13_NoPartialSuccess ==
  /\ (op = "from_csv" /\ err # "none")
       => from_csv(kind, present, file).recs = <<>>
  /\ (op = "from_pandas" /\ err # "none")
       => from_pandas(kind, frame, nops).recs = <<>>
  /\ (op = "to_csv" /\ err # "none") => file = <<>>
  /\ (op \in {"from_csv", "to_csv", "from_pandas"} /\ alt.err # "none")
       => alt.out = <<>>

\* C14: from_csv on a well-formed text preceded by a byte-order mark returns
\* the records it returns for the text without the mark, and the mark is no
\* part of the first field's value; so for every from_csv of the repository.
C14_BomTolerance ==
  (op = "from_csv" /\ present /\ file # <<>> /\ Head(file) = BOM)
    => LET plain == from_csv(kind, TRUE, Tail(file))
           altPlain == deployment_from_csv(TRUE, Tail(file))
       IN  /\ plain.err = "none" =>
                /\ err = "none"
                /\ recs = plain.recs
                /\ \A i \in DOMAIN recs :
                     BOM \notin Range(recs[i][Fields(kind)[1]].v)
           /\ (kind = "Deployment" /\ altPlain.err = "none") =>
                /\ alt.err = "none"
                /\ alt.out = altPlain.recs

\* C15: to_pandas(R) has one column per declared field in declared order and
\* one row per record, row i holding the field values of R[i]; so for the
\* empty R too.
C15_TableShape ==
  op = "to_pandas" =>
    /\ frame.columns = Fields(kind)
    /\ Len(frame.rows) = Len(recs)
    /\ \A i \in DOMAIN recs : \A f \in FieldSet(kind) :
         PyEq(frame.rows[i][f], recs[i][f])

\* C16: a from_csv or to_csv call makes one open() call, and no file is open
\* once a call has returned or raised.
C16_ResourceRelease ==
  /\ handles = 0
  /\ alt.handles = 0
  /\ op \in {"from_csv", "to_csv"} =>
       /\ opens = 1
       /\ kind = "Deployment" => alt.opens = 1

C16_Witness ==
  /\ op = "from_csv"
  /\ present
  /\ err = "TypeError"
  /\ nops > 1
  /\ handles = 0

\* C17: for a text T that from_csv accepts, the text N(T) that to_csv writes
\* for from_csv(T) is accepted by from_csv, and N(N(T)) = N(T).
C17_NormalizationIdempotent ==
  (op = "to_csv" /\ recsFrom = "from_csv")
    => LET again == from_csv(kind, TRUE, file)
       IN  /\ again.err = "none"
           /\ to_csv(kind, again.recs) = file

C17_Witness ==
  /\ op = "to_csv"
  /\ recsFrom = "from_csv"
  /\ src.by = "placed"
  /\ Len(recs) = 2
  /\ file # src.text
  /\ \E i \in DOMAIN recs : \E f \in FieldSet(kind) :
       recs[i][f].ty = "str" /\ QUOTE \in Range(recs[i][f].v)

\* C18: on every input the Deployment class of deployment.py and the one of
\* deployments.py give the same outcome: the same records, text or table, or
\* an error in both.
C18_ImplementationsAgree ==
  (kind = "Deployment"
     /\ op \in {"from_csv", "to_csv", "to_pandas", "from_pandas"})
    => \/ err # "none" /\ alt.err # "none"
       \/ err = "none" /\ alt.err = "none" /\ alt.out = Outcome

====
